---- MODULE Spec2Model ----
(***************************************************************************)
(* The aggregation server of src/main.py: one process-wide store, one      *)
(* threading.Lock, and the request handlers /update, /location, /latest    *)
(* and /health served by a pool of worker threads.  A thread's position in *)
(* its handler is pc[t]; a step of the model is what a thread does between *)
(* two points where another thread can observe or change the store.        *)
(*                                                                         *)
(* Time is in whole seconds.  Confidence values are in hundredths, so the  *)
(* 0.7 of the source is 70.                                                *)
(*                                                                         *)
(* Spec is the server; SpecUpdate is the server when only /update and      *)
(* /latest are requested; SpecRegistry and SpecAlertLog call               *)
(* update_device_status and log_alert directly, as a unit test would,      *)
(* because no request reaches the body of the first and /location alone    *)
(* reaches the second.                                                     *)
(***************************************************************************)
EXTENDS Integers, Sequences, FiniteSets, TLC

\* ------------------------------------------------------------------ bounds
NumThreads == 2          \* worker threads serving requests
MaxRequests == 2         \* HTTP requests received in one run
MaxClock == 1            \* last clock reading in a run of the server
MaxRegistryClock == 32   \* last clock reading in a run of the registry calls
MaxLogClock == 1         \* last clock reading in a run of the log_alert calls
MaxRecordings == 52      \* direct log_alert calls in one run

\* ------------------------------------------------------- program constants
AlertCap == 50               \* deque(maxlen=50)
AlertWindow == 10            \* list(...)[-10:]
StaleSeconds == 30           \* timedelta(seconds=30)
ConfidenceThreshold == 70    \* det.get('confidence', 0) > 0.7
ObstacleLimit == 50          \* 0 < distance < 50

Threads == 1..NumThreads
Harness == {1}               \* the thread that calls module functions directly
NoThread == 0

\* ------------------------------------------------------------ JSON values
\* Python's None, and JSON numbers, strings and arrays where a slot can hold
\* more than one type of value.
None == [none |-> TRUE]
JNum(n) == [num |-> n]
JText(s) == [text |-> s]
JList(s) == [list |-> s]
IsList(v) == "list" \in DOMAIN v
IsNum(v) == "num" \in DOMAIN v

\* A JSON object is a function from its keys.
EmptyObj == [k \in {} |-> None]
Has(data, k) == k \in DOMAIN data
\* dict.get(k, default)
Get(data, k, default) == IF Has(data, k) THEN data[k] ELSE default
\* Python truthiness of the values a payload field can hold
Falsy(v) == v = None \/ v = JText("") \/ v = JNum(0) \/ v = JList(<<>>)

\* datetime.isoformat() and datetime.fromisoformat()
isoformat(t) == [iso |-> t]
fromisoformat(s) == s.iso

\* ------------------------------------------------------------------ inputs
Det(name, confidence) == [name |-> name, confidence |-> confidence]

DetectionLists ==
    { <<Det("person", 71)>>,
      <<Det("person", 70), Det("dog", 90), Det("person", 71), Det("car", 80)>> }

BackfillTs == JText("2020-01-01T00:00:00")

VisionPayloads ==
    { [source |-> "vision", image |-> JText("img"), detections |-> JList(l)] :
          l \in DetectionLists }
    \cup { [source |-> "vision", detections |-> JNum(5), timestamp |-> BackfillTs] }

EspPayloads ==
    { [source |-> "esp", device_id |-> "d1", distance |-> JNum(10), sos |-> TRUE],
      [source |-> "esp", distance |-> JNum(50), timestamp |-> BackfillTs] }

InvalidPayloads ==
    { EmptyObj,
      [image |-> JText("img")],
      [source |-> "other", detections |-> JList(<<Det("person", 71)>>)] }

UpdatePayloads == VisionPayloads \cup EspPayloads \cup InvalidPayloads

LocationPayloads ==
    { EmptyObj,
      [lat |-> JNum(12), lon |-> JNum(77), who |-> "d1", timestamp |-> BackfillTs] }

RegistryDevices == {"d1"}

VARIABLES
    store,      \* the module-level dict `store`
    lock,       \* holder of store_lock, NoThread when unlocked
    pc,         \* pc[t]: where thread t is in its handler
    req,        \* req[t]: the handler frame of t (payload, resolved locals)
    args,       \* args[t]: the frame of the helper t is in (log_alert, update_device_status)
    resp,       \* the response the last step returned, None when it returned none
    now,        \* the clock, datetime.utcnow()
    nreq,       \* requests received so far (a request's id)
    recorded,   \* history: every alert appended so far, in order
    entered,    \* history: the store as it was when t took the lock it holds, else None
    tag,        \* history: the ids of the requests that wrote latest_detections and timestamp
    counted     \* history: the lengths of the detections arrays counted so far, in order

vars == <<store, lock, pc, req, args, resp, now, nreq, recorded, entered, tag, counted>>

\* ------------------------------------------------------------------- store
InitStore ==
    [ latest_image_b64 |-> None,
      latest_detections |-> JList(<<>>),
      latest_sensor |-> None,
      latest_location |-> None,
      latest_sos |-> None,
      timestamp |-> None,
      device_status |-> EmptyObj,
      alert_history |-> <<>>,
      stats |-> [ total_detections |-> 0,
                  sos_count |-> 0,
                  uptime_start |-> isoformat(0) ] ]

Init ==
    /\ store = InitStore
    /\ lock = NoThread
    /\ pc = [t \in Threads |-> "idle"]
    /\ req = [t \in Threads |-> None]
    /\ args = [t \in Threads |-> None]
    /\ resp = None
    /\ now = 0
    /\ nreq = 0
    /\ recorded = <<>>
    /\ entered = [t \in Threads |-> None]
    /\ tag = [latest_detections |-> 0, timestamp |-> 0]
    /\ counted = <<>>

\* A step that returns nothing to a client
NoResponse == resp' = None

\* ------------------------------------------------------------------- clock
Tick(limit) ==
    /\ now < limit
    /\ now' = now + 1
    /\ NoResponse
    /\ UNCHANGED <<store, lock, pc, req, args, nreq, recorded, entered, tag, counted>>

\* ------------------------------------------------------------ store_lock
\* A lock that excludes nobody
lock_unguarded(t) == TRUE

\* threading.Lock is not reentrant: it is granted only when nobody holds it,
\* the asking thread included.

lock_available(t) == lock = NoThread

\* The places where a thread stands at a `with store_lock:` line, and where it
\* is once inside.
LockSites ==
    {"update_lock", "location_lock", "latest_lock", "health_lock", "alert_lock", "touch_lock"}

Inside(site) ==
    CASE site = "update_lock" -> "update_body"
      [] site = "location_lock" -> "location_body"
      [] site = "latest_lock" -> "latest_body"
      [] site = "health_lock" -> "health_body"
      [] site = "alert_lock" -> "alert_body"
      [] site = "touch_lock" -> "touch_body"

\* `with store_lock:` entered (lines 39, 44, 57, 79, 127, 143)
acquire(t) ==
    /\ pc[t] \in LockSites
    /\ lock_available(t)
    /\ lock' = t
    /\ pc' = [pc EXCEPT ![t] = Inside(pc[t])]
    /\ entered' = [entered EXCEPT ![t] = store]
    /\ NoResponse
    /\ UNCHANGED <<store, req, args, now, nreq, recorded, tag, counted>>

\* ---------------------------------------------------------------- helpers
\* dict[k] = v
DictSet(m, k, v) == [x \in (DOMAIN m) \cup {k} |-> IF x = k THEN v ELSE m[x]]

\* list(q)[:n], the oldest entries in place of the newest
Oldest(q, n) == SubSeq(q, 1, IF Len(q) > n THEN n ELSE Len(q))

\* list(q)[-n:]

Last(q, n) == SubSeq(q, IF Len(q) > n THEN Len(q) - n + 1 ELSE 1, Len(q))

\* A full log that refuses the new entry
deque_append_keeps_oldest(q, x) == IF Len(q) >= AlertCap THEN q ELSE Append(q, x)

\* deque(maxlen=50).append(x): a full deque drops its oldest entry

deque_append(q, x) == IF Len(q) >= AlertCap THEN Append(Tail(q), x) ELSE Append(q, x)

Error(op, code, message) == [op |-> op, code |-> code, body |-> [error |-> message]]

\* The `with store_lock:` block is left, by its end, a return or an exception.
Release(t) ==
    /\ lock' = NoThread
    /\ entered' = [entered EXCEPT ![t] = None]

\* The handler returns: its response goes out, its frame is gone, and the
\* thread is free for the next request.
Return(t, answer) ==
    /\ resp' = answer @@ [id |-> req[t].id]
    /\ req' = [req EXCEPT ![t] = None]
    /\ pc' = [pc EXCEPT ![t] = "idle"]

\* ---------------------------------------------------------------- log_alert
\* Lines 33-38: the alert is built, with the clock read, before the lock is asked for.
AlertFrame(alert_type, message, device_id, ret) ==
    [ alert |-> [ type |-> alert_type,
                  message |-> message,
                  device_id |-> device_id,
                  timestamp |-> isoformat(now) ],
      ret |-> ret ]

\* Lines 39-41: the append under the lock, then the return to the caller.
log_alert_body(t) ==
    /\ pc[t] = "alert_body"
    /\ store' = [store EXCEPT !.alert_history = deque_append(@, args[t].alert)]
    /\ recorded' = Append(recorded, args[t].alert)
    /\ Release(t)
    /\ args' = [args EXCEPT ![t] = None]
    /\ pc' = [pc EXCEPT ![t] = args[t].ret]
    /\ NoResponse
    /\ UNCHANGED <<req, now, nreq, tag, counted>>

\* ----------------------------------------------------- update_device_status
TouchFrame(device_id, device_type, ret) ==
    [device_id |-> device_id, device_type |-> device_type, ret |-> ret]

\* Lines 44-49
update_device_status_body(t) ==
    /\ pc[t] = "touch_body"
    /\ store' = [store EXCEPT !.device_status =
                    DictSet(@, args[t].device_id,
                            [ type |-> args[t].device_type,
                              last_seen |-> isoformat(now),
                              status |-> "online" ])]
    /\ Release(t)
    /\ args' = [args EXCEPT ![t] = None]
    /\ pc' = [pc EXCEPT ![t] = args[t].ret]
    /\ NoResponse
    /\ UNCHANGED <<req, now, nreq, recorded, tag, counted>>

\* -------------------------------------------------------------- GET /latest
\* A worker thread takes the next request; frame holds the handler's locals.
NewRequest(t, frame) ==
    /\ pc[t] = "idle"
    /\ nreq < MaxRequests
    /\ nreq' = nreq + 1
    /\ req' = [req EXCEPT ![t] = frame @@ [id |-> nreq + 1]]

request_latest(t) ==
    /\ NewRequest(t, [op |-> "latest"])
    /\ pc' = [pc EXCEPT ![t] = "latest_lock"]
    /\ NoResponse
    /\ UNCHANGED <<store, lock, args, now, recorded, entered, tag, counted>>

\* The comparison of line 62 with >= in place of >
derive_status_inclusive(status, cutoff) ==
    IF "last_seen" \in DOMAIN status
    THEN [status EXCEPT !.status =
             IF fromisoformat(status.last_seen) >= cutoff THEN "online" ELSE "offline"]
    ELSE status

\* Line 62, for one registry entry
derive_status(status, cutoff) ==
    IF "last_seen" \in DOMAIN status
    THEN [status EXCEPT !.status =
             IF fromisoformat(status.last_seen) > cutoff THEN "online" ELSE "offline"]
    ELSE status

\* The update requests that are inside their critical section, by id
UpdateSection ==
    {"update_body", "vision_timestamp", "vision_count"}

Busy == {req[u].id : u \in {v \in Threads : pc[v] \in UpdateSection}}

\* Lines 57-67: the stored statuses are rewritten, then the store is serialised
\* with the alert log cut to its last 10 entries.
latest_body(t) ==
    /\ pc[t] = "latest_body"
    /\ LET cutoff == now - StaleSeconds
           devices == [d \in DOMAIN store.device_status |->
                          derive_status(store.device_status[d], cutoff)]
           after == [store EXCEPT !.device_status = devices]
       IN /\ store' = after
          /\ Return(t, [ op |-> "latest", code |-> 200,
                         body |-> [after EXCEPT !.alert_history = Last(@, AlertWindow)],
                         seen |-> [tag |-> tag, busy |-> Busy] ])
    /\ Release(t)
    /\ UNCHANGED <<args, now, nreq, recorded, tag, counted>>

\* -------------------------------------------------------------- GET /health
request_health(t) ==
    /\ NewRequest(t, [op |-> "health"])
    /\ pc' = [pc EXCEPT ![t] = "health_lock"]
    /\ NoResponse
    /\ UNCHANGED <<store, lock, args, now, recorded, entered, tag, counted>>

\* Lines 143-149
health_body(t) ==
    /\ pc[t] = "health_body"
    /\ Return(t, [ op |-> "health", code |-> 200,
                   body |-> [ status |-> "healthy",
                              uptime |-> store.stats.uptime_start,
                              devices |-> store.device_status,
                              stats |-> store.stats ] ])
    /\ Release(t)
    /\ UNCHANGED <<store, args, now, nreq, recorded, tag, counted>>

\* ------------------------------------------------------------ POST /update
\* Line 76: data.get("timestamp") or datetime.utcnow().isoformat()
resolve_ts(data) ==
    LET given == Get(data, "timestamp", None)
    IN IF Falsy(given) THEN isoformat(now) ELSE given

\* Line 72: the payload is parsed.
request_update(t, data) ==
    /\ NewRequest(t, [op |-> "update", data |-> data])
    /\ pc' = [pc EXCEPT ![t] = "update_check"]
    /\ NoResponse
    /\ UNCHANGED <<store, lock, args, now, recorded, entered, tag, counted>>

\* Lines 73-77: a payload that is empty or has no source is answered with 400;
\* otherwise the timestamp and the source are read and the lock is asked for.
update_check(t) ==
    /\ pc[t] = "update_check"
    /\ LET data == req[t].data
       IN IF DOMAIN data = {} \/ ~Has(data, "source")
          THEN Return(t, Error("update", 400, "no data or missing source"))
          ELSE /\ req' = [req EXCEPT ![t] =
                             @ @@ [ts |-> resolve_ts(data), source |-> data.source, i |-> 1]]
               /\ pc' = [pc EXCEPT ![t] = "update_lock"]
               /\ NoResponse
    /\ UNCHANGED <<store, lock, args, now, nreq, recorded, entered, tag, counted>>

\* An unknown source answered with ok
update_unknown_source_accepted(t) ==
    /\ pc[t] = "update_body"
    /\ req[t].source \notin {"vision", "esp"}
    /\ Return(t, [ op |-> "update", code |-> 200,
                   body |-> [status |-> "ok", timestamp |-> req[t].ts] ])
    /\ Release(t)
    /\ UNCHANGED <<store, args, now, nreq, recorded, tag, counted>>

\* Lines 110-111: neither branch matches; the return leaves the `with` block.
update_unknown_source(t) ==
    /\ pc[t] = "update_body"
    /\ req[t].source \notin {"vision", "esp"}
    /\ Return(t, Error("update", 400, "unknown source"))
    /\ Release(t)
    /\ UNCHANGED <<store, args, now, nreq, recorded, tag, counted>>

\* Lines 81-83: the image and the detections
vision_detections(t) ==
    /\ pc[t] = "update_body"
    /\ req[t].source = "vision"
    /\ store' = [store EXCEPT
                    !.latest_image_b64 = Get(req[t].data, "image", None),
                    !.latest_detections = Get(req[t].data, "detections", JList(<<>>))]
    /\ tag' = [tag EXCEPT !.latest_detections = req[t].id]
    /\ pc' = [pc EXCEPT ![t] = "vision_timestamp"]
    /\ NoResponse
    /\ UNCHANGED <<lock, req, args, now, nreq, recorded, entered, counted>>

\* Line 84
vision_timestamp(t) ==
    /\ pc[t] = "vision_timestamp"
    /\ store' = [store EXCEPT !.timestamp = req[t].ts]
    /\ tag' = [tag EXCEPT !.timestamp = req[t].id]
    /\ pc' = [pc EXCEPT ![t] = "vision_count"]
    /\ NoResponse
    /\ UNCHANGED <<lock, req, args, now, nreq, recorded, entered, counted>>

\* A counter of updates, not of detections
count_one(total, detections) == total + 1

\* Line 85, for the counter

count_detections(total, detections) == total + Len(detections.list)

\* Lines 85-86, 114-116: len() of the detections, which raises on a value that
\* has no length (the exception leaves the `with` block and is answered with
\* 500); then the call of update_device_status, which asks for the lock.
vision_count(t) ==
    /\ pc[t] = "vision_count"
    /\ LET detections == Get(req[t].data, "detections", JList(<<>>))
       IN IF IsList(detections)
          THEN /\ store' = [store EXCEPT !.stats.total_detections =
                               count_detections(@, detections)]
               /\ args' = [args EXCEPT ![t] =
                              TouchFrame("vision_client", "laptop", "vision_loop")]
               /\ counted' = Append(counted, Len(detections.list))
               /\ pc' = [pc EXCEPT ![t] = "touch_lock"]
               /\ NoResponse
               /\ UNCHANGED <<lock, req, entered>>
          ELSE /\ Return(t, Error("update", 500, "TypeError"))
               /\ Release(t)
               /\ UNCHANGED <<store, args, counted>>
    /\ UNCHANGED <<now, nreq, recorded, tag>>

\* An esp branch that also empties the detections
esp_sensor_clears_detections(t) ==
    /\ pc[t] = "update_body"
    /\ req[t].source = "esp"
    /\ LET distance == Get(req[t].data, "distance", None)
           device_id == Get(req[t].data, "device_id", "esp_unknown")
       IN /\ store' = [store EXCEPT
                          !.latest_sensor = [ distance |-> distance,
                                              device_id |-> device_id,
                                              timestamp |-> req[t].ts ],
                          !.latest_detections = JList(<<>>)]
          /\ args' = [args EXCEPT ![t] = TouchFrame(device_id, "esp8266", "esp_sos")]
    /\ pc' = [pc EXCEPT ![t] = "touch_lock"]
    /\ NoResponse
    /\ UNCHANGED <<lock, req, now, nreq, recorded, entered, tag, counted>>

\* Lines 93-102: the sensor slot, then the call of update_device_status.

esp_sensor(t) ==
    /\ pc[t] = "update_body"
    /\ req[t].source = "esp"
    /\ LET distance == Get(req[t].data, "distance", None)
           device_id == Get(req[t].data, "device_id", "esp_unknown")
       IN /\ store' = [store EXCEPT !.latest_sensor =
                          [ distance |-> distance,
                            device_id |-> device_id,
                            timestamp |-> req[t].ts ]]
          /\ args' = [args EXCEPT ![t] = TouchFrame(device_id, "esp8266", "esp_sos")]
    /\ pc' = [pc EXCEPT ![t] = "touch_lock"]
    /\ NoResponse
    /\ UNCHANGED <<lock, req, now, nreq, recorded, entered, tag, counted>>

\* ---------------------------------------------------------- POST /location
\* A handler that takes the payload's timestamp when there is one
request_location_caller_ts(t, data) ==
    /\ NewRequest(t, [ op |-> "location", data |-> data,
                       lat |-> Get(data, "lat", None),
                       lon |-> Get(data, "lon", None),
                       who |-> Get(data, "who", "unknown"),
                       ts |-> Get(data, "timestamp", isoformat(now)) ])
    /\ pc' = [pc EXCEPT ![t] = "location_lock"]
    /\ NoResponse
    /\ UNCHANGED <<store, lock, args, now, recorded, entered, tag, counted>>

\* Lines 121-125

request_location(t, data) ==
    /\ NewRequest(t, [ op |-> "location", data |-> data,
                       lat |-> Get(data, "lat", None),
                       lon |-> Get(data, "lon", None),
                       who |-> Get(data, "who", "unknown"),
                       ts |-> isoformat(now) ])
    /\ pc' = [pc EXCEPT ![t] = "location_lock"]
    /\ NoResponse
    /\ UNCHANGED <<store, lock, args, now, recorded, entered, tag, counted>>

\* The slot and the alert written in one critical section
location_body_one_section(t) ==
    /\ pc[t] = "location_body"
    /\ LET frame == AlertFrame("LOCATION", <<"Location update from ", req[t].who>>,
                               req[t].who, "location_return")
       IN /\ store' = [store EXCEPT
                          !.latest_location =
                              [ lat |-> req[t].lat, lon |-> req[t].lon,
                                who |-> req[t].who, timestamp |-> req[t].ts ],
                          !.alert_history = deque_append(@, frame.alert)]
          /\ recorded' = Append(recorded, frame.alert)
    /\ Release(t)
    /\ pc' = [pc EXCEPT ![t] = "location_return"]
    /\ NoResponse
    /\ UNCHANGED <<req, args, now, nreq, tag, counted>>

\* Lines 127-135: the slot is written under the lock, the lock is released, and
\* log_alert is called.

location_body(t) ==
    /\ pc[t] = "location_body"
    /\ store' = [store EXCEPT !.latest_location =
                    [ lat |-> req[t].lat, lon |-> req[t].lon,
                      who |-> req[t].who, timestamp |-> req[t].ts ]]
    /\ Release(t)
    /\ args' = [args EXCEPT ![t] =
                   AlertFrame("LOCATION", <<"Location update from ", req[t].who>>,
                              req[t].who, "location_return")]
    /\ pc' = [pc EXCEPT ![t] = "alert_lock"]
    /\ NoResponse
    /\ UNCHANGED <<req, now, nreq, recorded, tag, counted>>

\* Line 136
location_return(t) ==
    /\ pc[t] = "location_return"
    /\ Return(t, [op |-> "location", code |-> 200, body |-> [status |-> "ok"]])
    /\ UNCHANGED <<store, lock, args, now, nreq, recorded, entered, tag, counted>>

\* --------------------------------------------- the rest of the update branches
\* Lines 87-109 and 113 follow the call of update_device_status at lines 86 and
\* 102, which is made with store_lock held.

important_objects == {"person", "car", "truck", "bicycle", "motorcycle"}

\* Line 89
qualifies(det) ==
    /\ Has(det, "name")
    /\ det.name \in important_objects
    /\ Get(det, "confidence", 0) > ConfidenceThreshold

\* Lines 88-90: one iteration of the loop over the detections
vision_loop(t) ==
    /\ pc[t] = "vision_loop"
    /\ LET detections == Get(req[t].data, "detections", JList(<<>>)).list
           i == req[t].i
       IN IF i > Len(detections)
          THEN /\ pc' = [pc EXCEPT ![t] = "update_return"]
               /\ UNCHANGED <<req, args>>
          ELSE /\ req' = [req EXCEPT ![t].i = i + 1]
               /\ IF qualifies(detections[i])
                  THEN /\ args' = [args EXCEPT ![t] =
                                      AlertFrame("DETECTION",
                                                 <<"High confidence ", detections[i].name,
                                                   " detected">>,
                                                 "vision_client", "vision_loop")]
                       /\ pc' = [pc EXCEPT ![t] = "alert_lock"]
                  ELSE UNCHANGED <<pc, args>>
    /\ NoResponse
    /\ UNCHANGED <<store, lock, now, nreq, recorded, entered, tag, counted>>

\* Lines 103-106
esp_sos(t) ==
    /\ pc[t] = "esp_sos"
    /\ LET device_id == Get(req[t].data, "device_id", "esp_unknown")
       IN IF Get(req[t].data, "sos", FALSE)
          THEN /\ store' = [store EXCEPT
                               !.latest_sos = [device_id |-> device_id,
                                               timestamp |-> req[t].ts],
                               !.stats.sos_count = @ + 1]
               /\ args' = [args EXCEPT ![t] =
                              AlertFrame("SOS", <<"Emergency signal from ", device_id>>,
                                         device_id, "esp_obstacle")]
               /\ pc' = [pc EXCEPT ![t] = "alert_lock"]
          ELSE /\ pc' = [pc EXCEPT ![t] = "esp_obstacle"]
               /\ UNCHANGED <<store, args>>
    /\ NoResponse
    /\ UNCHANGED <<lock, req, now, nreq, recorded, entered, tag, counted>>

\* Line 107
close_obstacle(distance) ==
    /\ ~Falsy(distance)
    /\ 0 < distance.num
    /\ distance.num < ObstacleLimit

\* Lines 107-108
esp_obstacle(t) ==
    /\ pc[t] = "esp_obstacle"
    /\ LET distance == Get(req[t].data, "distance", None)
           device_id == Get(req[t].data, "device_id", "esp_unknown")
       IN IF close_obstacle(distance)
          THEN /\ args' = [args EXCEPT ![t] =
                              AlertFrame("OBSTACLE",
                                         <<"Close obstacle detected: ", distance.num, "cm">>,
                                         device_id, "esp_timestamp")]
               /\ pc' = [pc EXCEPT ![t] = "alert_lock"]
          ELSE /\ pc' = [pc EXCEPT ![t] = "esp_timestamp"]
               /\ UNCHANGED args
    /\ NoResponse
    /\ UNCHANGED <<store, lock, req, now, nreq, recorded, entered, tag, counted>>

\* Line 109
esp_timestamp(t) ==
    /\ pc[t] = "esp_timestamp"
    /\ store' = [store EXCEPT !.timestamp = req[t].ts]
    /\ tag' = [tag EXCEPT !.timestamp = req[t].id]
    /\ pc' = [pc EXCEPT ![t] = "update_return"]
    /\ NoResponse
    /\ UNCHANGED <<lock, req, args, now, nreq, recorded, entered, counted>>

\* Line 113, after the `with` block is left
update_return(t) ==
    /\ pc[t] = "update_return"
    /\ Release(t)
    /\ Return(t, [ op |-> "update", code |-> 200,
                   body |-> [status |-> "ok", timestamp |-> req[t].ts] ])
    /\ UNCHANGED <<store, args, now, nreq, recorded, tag, counted>>

\* ------------------------------------------- the module functions called directly
\* update_device_status(device_id, device_type) called on its own, as a test of
\* the registry calls it.
call_update_device_status(t, device_id, device_type) ==
    /\ pc[t] = "idle"
    /\ req' = [req EXCEPT ![t] = [op |-> "update_device_status"]]
    /\ args' = [args EXCEPT ![t] = TouchFrame(device_id, device_type, "idle")]
    /\ pc' = [pc EXCEPT ![t] = "touch_lock"]
    /\ NoResponse
    /\ UNCHANGED <<store, lock, now, nreq, recorded, entered, tag, counted>>

\* log_alert(alert_type, message, device_id) called on its own.
call_log_alert(t, alert_type, message, device_id) ==
    /\ pc[t] = "idle"
    /\ Len(recorded) < MaxRecordings
    /\ req' = [req EXCEPT ![t] = [op |-> "log_alert"]]
    /\ args' = [args EXCEPT ![t] = AlertFrame(alert_type, message, device_id, "idle")]
    /\ pc' = [pc EXCEPT ![t] = "alert_lock"]
    /\ NoResponse
    /\ UNCHANGED <<store, lock, now, nreq, recorded, entered, tag, counted>>

\* ---------------------------------------------------------- specifications
\* One step of a thread that has a request
Work(t) ==
    \/ update_check(t)
    \/ acquire(t)
    \/ update_unknown_source(t)
    \/ vision_detections(t)
    \/ vision_timestamp(t)
    \/ vision_count(t)
    \/ esp_sensor(t)
    \/ location_body(t)
    \/ location_return(t)
    \/ log_alert_body(t)
    \/ latest_body(t)
    \/ health_body(t)

Receive(t) ==
    \/ \E data \in UpdatePayloads : request_update(t, data)
    \/ \E data \in LocationPayloads : request_location(t, data)
    \/ request_latest(t)
    \/ request_health(t)

\* The server.  The steps of Rest are left out: no thread reaches them (see
\* C1_NeverAsksWhileHolding and RestNeverRuns).
Next ==
    \/ \E t \in Threads : Receive(t)
    \/ \E t \in Threads : Work(t)
    \/ Tick(MaxClock)

Spec == Init /\ [][Next]_vars

\* The update and snapshot requests alone: the server when no other request
\* is made.
UpdateWork(t) ==
    \/ update_check(t)
    \/ acquire(t)
    \/ update_unknown_source(t)
    \/ vision_detections(t)
    \/ vision_timestamp(t)
    \/ vision_count(t)
    \/ esp_sensor(t)
    \/ latest_body(t)

UpdateNext ==
    \/ \E t \in Threads, data \in UpdatePayloads : request_update(t, data)
    \/ \E t \in Threads : request_latest(t)
    \/ \E t \in Threads : UpdateWork(t)
    \/ Tick(MaxClock)

SpecUpdate == Init /\ [][UpdateNext]_vars

\* The scheduler is fair to a thread that can take a step.
FairSpec == Spec /\ \A t \in Threads : WF_vars(Work(t))

Rest(t) ==
    \/ update_device_status_body(t)
    \/ vision_loop(t)
    \/ esp_sos(t)
    \/ esp_obstacle(t)
    \/ esp_timestamp(t)
    \/ update_return(t)

ProgramNext == Next \/ \E t \in Threads : Rest(t)

Program == Init /\ [][ProgramNext]_vars

\* Under Program no step of Rest is ever taken, so Program and Spec have the
\* same behaviours.
RestNeverRuns == [][~(\E t \in Threads : Rest(t))]_vars

\* The device registry called directly: update_device_status, and the two reads.
RegistryNext ==
    \/ \E t \in Harness, d \in RegistryDevices : call_update_device_status(t, d, "esp8266")
    \/ \E t \in Harness : acquire(t)
    \/ \E t \in Harness : update_device_status_body(t)
    \/ \E t \in Harness : request_latest(t)
    \/ \E t \in Harness : latest_body(t)
    \/ \E t \in Harness : request_health(t)
    \/ \E t \in Harness : health_body(t)
    \/ Tick(MaxRegistryClock)

SpecRegistry == Init /\ [][RegistryNext]_vars

\* The alert log called directly: log_alert, over and over.
AlertLogNext ==
    \/ \E t \in Harness : call_log_alert(t, "LOCATION", <<"Location update from ", "d1">>, "d1")
    \/ \E t \in Harness : acquire(t)
    \/ \E t \in Harness : log_alert_body(t)
    \/ Tick(MaxLogClock)

SpecAlertLog == Init /\ [][AlertLogNext]_vars

\* The alert log called directly and read through latest().
AlertWindowNext ==
    \/ \E t \in Harness : call_log_alert(t, "LOCATION", <<"Location update from ", "d1">>, "d1")
    \/ \E t \in Harness : acquire(t)
    \/ \E t \in Harness : log_alert_body(t)
    \/ \E t \in Harness : request_latest(t)
    \/ \E t \in Harness : latest_body(t)
    \/ Tick(MaxLogClock)

SpecAlertWindow == Init /\ [][AlertWindowNext]_vars

\* The location and snapshot requests alone: the server when no update is sent.
LocationNext ==
    \/ \E t \in Threads, data \in LocationPayloads : request_location(t, data)
    \/ \E t \in Threads : request_latest(t)
    \/ \E t \in Threads : acquire(t)
    \/ \E t \in Threads : location_body(t)
    \/ \E t \in Threads : log_alert_body(t)
    \/ \E t \in Threads : location_return(t)
    \/ \E t \in Threads : latest_body(t)
    \/ Tick(MaxClock)

SpecLocation == Init /\ [][LocationNext]_vars

\* The server within one reading of the clock: every request, no tick.
InstantNext ==
    \/ \E t \in Threads : Receive(t)
    \/ \E t \in Threads : Work(t)

SpecInstant == Init /\ [][InstantNext]_vars

\* ------------------------------------------------------------------ claims
RECURSIVE Sum(_)
Sum(q) == IF q = <<>> THEN 0 ELSE Head(q) + Sum(Tail(q))

\* The alerts t's update has appended since it took the lock
NewAlerts(t) ==
    SubSeq(store.alert_history, Len(entered[t].alert_history) + 1, Len(store.alert_history))

\* C1: an update whose source is vision or esp never waits for the store lock
\* while it is itself holding it (so it can run to completion).
C1_NeverAsksWhileHolding ==
    \A t \in Threads : pc[t] \in LockSites => lock # t

\* C2: no snapshot shows the detections of a vision update that is still in
\* progress with another update's timestamp, or that update's timestamp with
\* other detections.
C2_NoTornSnapshot ==
    (resp # None /\ resp.op = "latest") =>
        \A id \in resp.seen.busy :
            (resp.seen.tag.latest_detections = id) <=> (resp.seen.tag.timestamp = id)

\* A vision update has written its detections and not yet its timestamp while
\* a snapshot request stands at the lock.
C2_SnapshotWaitsForUpdate ==
    \E t, u \in Threads :
        /\ pc[t] = "vision_timestamp"
        /\ tag.latest_detections = req[t].id
        /\ tag.timestamp # req[t].id
        /\ pc[u] = "latest_lock"

C3_Invalid(data) ==
    \/ DOMAIN data = {}
    \/ ~Has(data, "source")
    \/ data.source \notin {"vision", "esp"}

\* C3: an update whose payload is empty, has no source, or has a source other
\* than vision or esp changes no field of the store in any of its steps, and
\* when it returns its response is a 400.
C3_InvalidRejected ==
    [][ \A t \in Threads :
          ( /\ req[t] # None
            /\ req[t].op = "update"
            /\ C3_Invalid(req[t].data)
            /\ pc'[t] # pc[t] )
          => /\ store' = store
             /\ pc'[t] = "idle" =>
                    (resp' # None /\ resp'.id = req[t].id /\ resp'.code = 400) ]_vars

\* An update with an unknown source has just been rejected, on a store that
\* an earlier request had written to.
C3_UnknownSourceRejected ==
    /\ resp # None
    /\ resp.op = "update"
    /\ resp.code = 400
    /\ resp.body.error = "unknown source"
    /\ store # InitStore

\* C4: when an update ends in an internal error (500), the store is as it was
\* when the update took the lock: the failed call has written no field.
C4_FailedUpdateWritesNothing ==
    [][ \A t \in Threads :
          ( /\ req[t] # None
            /\ req[t].op = "update"
            /\ resp' # None
            /\ resp'.id = req[t].id
            /\ resp'.code = 500 )
          => store' = entered[t] ]_vars

\* C5: the alert log never holds more than 50 entries, and it is the last
\* min(k, 50) of the k alerts recorded so far, in the order they were recorded.
C5_BoundedFifo ==
    LET k == Len(recorded)
        m == IF k < 50 THEN k ELSE 50
    IN /\ Len(store.alert_history) = m
       /\ m <= 50
       /\ \A i \in 1..m : store.alert_history[i] = recorded[k - m + i]

\* 51 alerts have been recorded: the first is gone from the log and the other
\* 50 are there.
C5_FirstEvicted ==
    /\ Len(recorded) = 51
    /\ Len(store.alert_history) = 50
    /\ \A i \in 1..50 : store.alert_history[i] # recorded[1]
    /\ store.alert_history[50] = recorded[51]

C7_ReadsReportDerivedStatus ==
    (resp # None /\ resp.op \in {"latest", "health"}) =>
        LET devices == IF resp.op = "latest" THEN resp.body.device_status
                       ELSE resp.body.devices
        IN \A d \in DOMAIN devices :
               devices[d].status = derive_status(devices[d], now - StaleSeconds).status

C9_Important(det) ==
    /\ det.name \in {"person", "car", "truck", "bicycle", "motorcycle"}
    /\ det.confidence > 70

\* C9: a vision update appends one DETECTION alert, attributed to
\* vision_client, for each detection with an important name and a confidence
\* above 0.7, in detection order, and no other alert.
C9_VisionAlerts ==
    \A t \in Threads :
        (pc[t] = "touch_lock" /\ req[t].source = "vision")
        ~> ( /\ pc[t] = "update_return"
             /\ LET want == SelectSeq(req[t].data.detections.list, C9_Important)
                    new == NewAlerts(t)
                IN /\ Len(new) = Len(want)
                   /\ \A i \in 1..Len(want) :
                          /\ new[i].type = "DETECTION"
                          /\ new[i].device_id = "vision_client"
                          /\ new[i].message[2] = want[i].name )

\* C10: an esp update with a truthy sos flag and a distance d, 0 < d < 50,
\* adds 1 to sos_count, sets the SOS slot's device_id to the reading's, and
\* appends two alerts: the SOS alert, then the OBSTACLE alert.
C10_SosThenObstacle ==
    \A t \in Threads :
        ( /\ pc[t] = "touch_lock"
          /\ req[t].source = "esp"
          /\ Get(req[t].data, "sos", FALSE)
          /\ Has(req[t].data, "distance")
          /\ 0 < req[t].data.distance.num
          /\ req[t].data.distance.num < 50 )
        ~> ( /\ pc[t] = "update_return"
             /\ store.stats.sos_count = entered[t].stats.sos_count + 1
             /\ store.latest_sos # None
             /\ store.latest_sos.device_id = Get(req[t].data, "device_id", "esp_unknown")
             /\ LET new == NewAlerts(t)
                IN /\ Len(new) = 2
                   /\ new[1].type = "SOS"
                   /\ new[2].type = "OBSTACLE" )

C11_Obstacles(q) == SelectSeq(q, LAMBDA a : a.type = "OBSTACLE")

\* C11: an esp update appends an OBSTACLE alert, attributed to the reading's
\* device_id, if and only if its distance is present and 0 < distance < 50
\* (none at 0, at 50, below 0 or when absent); every such reading appends its
\* own alert.
C11_ObstacleIffClose ==
    \A t \in Threads :
        (pc[t] = "touch_lock" /\ req[t].source = "esp")
        ~> ( /\ pc[t] = "update_return"
             /\ LET distance == Get(req[t].data, "distance", None)
                    close == /\ IsNum(distance)
                             /\ 0 < distance.num
                             /\ distance.num < 50
                    new == C11_Obstacles(NewAlerts(t))
                IN /\ Len(new) = (IF close THEN 1 ELSE 0)
                   /\ \A i \in 1..Len(new) :
                          new[i].device_id = Get(req[t].data, "device_id", "esp_unknown") )

\* C12: the alert window of a snapshot has min(10, k, 50) entries, k the number
\* of alerts recorded so far; they are the most recently recorded alerts in the
\* order they were recorded; and taking the snapshot leaves the stored alert
\* log as it was.
C12_WindowIsNewestTen ==
    /\ []( (resp # None /\ resp.op = "latest") =>
             LET w == resp.body.alert_history
                 k == Len(recorded)
                 c == IF k < 50 THEN k ELSE 50
                 m == IF c < 10 THEN c ELSE 10
             IN /\ Len(w) = m
                /\ \A i \in 1..m : w[i] = recorded[k - m + i] )
    /\ [][ (resp' # None /\ resp'.op = "latest") =>
             store'.alert_history = store.alert_history ]_vars

\* A snapshot taken after 51 alerts, the clock having advanced while they were
\* recorded: its window is the 42nd to the 51st, and the log still holds 50.
C12_WindowAfter51 ==
    /\ resp # None
    /\ resp.op = "latest"
    /\ Len(recorded) = 51
    /\ recorded[1] # recorded[51]
    /\ Len(resp.body.alert_history) = 10
    /\ resp.body.alert_history[1] = recorded[42]
    /\ resp.body.alert_history[1] # resp.body.alert_history[10]
    /\ Len(store.alert_history) = 50

C13_OfType(q, type) == SelectSeq(q, LAMBDA a : a.type = type)

\* C13: an accepted update is not idempotent: when the same payload is sent
\* twice in succession, both calls are applied; a vision payload adds the
\* length of its detections to total_detections twice, an SOS-flagged esp
\* payload adds 2 to sos_count, and every alert of the payload is appended twice.
C13_ReplayCountsTwice ==
    \A t, u \in Threads :
        ( /\ t # u
          /\ pc[t] = "touch_lock"
          /\ pc[u] = "update_lock"
          /\ req[u].data = req[t].data )
        ~> LET data == req[t].data
           IN /\ pc[t] = "update_return" \/ pc[u] = "update_return"
              /\ data.source = "vision" =>
                    /\ store.stats.total_detections >= 2 * Len(data.detections.list)
                    /\ Len(C13_OfType(recorded, "DETECTION"))
                          >= 2 * Len(SelectSeq(data.detections.list, C9_Important))
              /\ (data.source = "esp" /\ Get(data, "sos", FALSE)) =>
                    /\ store.stats.sos_count >= 2
                    /\ Len(C13_OfType(recorded, "SOS")) >= 2

\* The clock readings up to now, as isoformat() gives them
C14_ServerTimes == {isoformat(k) : k \in 0..now}

\* C14: a location call goes through exactly these steps, in this order: it
\* takes the lock, overwrites the location slot with the payload's lat and lon
\* as given (absent ones as None) and its who ("unknown" when absent) under a
\* timestamp read from the server's clock, never the payload's; it appends
\* one LOCATION alert attributed to who; then it returns ok.  No step depends
\* on the values of lat and lon.
C14_LocationSteps ==
    [][ /\ \A t \in Threads :
              (req[t] # None /\ req[t].op = "location" /\ pc'[t] # pc[t]) =>
                  LET data == req[t].data
                      who == Get(data, "who", "unknown")
                  IN CASE pc[t] = "location_lock" ->
                              /\ pc'[t] = "location_body"
                              /\ store' = store
                              /\ recorded' = recorded
                       [] pc[t] = "location_body" ->
                              /\ pc'[t] = "alert_lock"
                              /\ store'.latest_location \in
                                    { [ lat |-> Get(data, "lat", None),
                                        lon |-> Get(data, "lon", None),
                                        who |-> who,
                                        timestamp |-> ts ] : ts \in C14_ServerTimes }
                              /\ store'.alert_history = store.alert_history
                              /\ recorded' = recorded
                       [] pc[t] = "alert_lock" ->
                              /\ pc'[t] = "alert_body"
                              /\ store' = store
                              /\ recorded' = recorded
                       [] pc[t] = "alert_body" ->
                              /\ pc'[t] = "location_return"
                              /\ Len(recorded') = Len(recorded) + 1
                              /\ SubSeq(recorded', 1, Len(recorded)) = recorded
                              /\ recorded'[Len(recorded')].type = "LOCATION"
                              /\ recorded'[Len(recorded')].device_id = who
                              /\ store'.alert_history[Len(store'.alert_history)]
                                    = recorded'[Len(recorded')]
                              /\ store'.latest_location = store.latest_location
                       [] pc[t] = "location_return" ->
                              /\ pc'[t] = "idle"
                              /\ store' = store
                              /\ recorded' = recorded
                              /\ resp' = [ op |-> "location", code |-> 200,
                                           body |-> [status |-> "ok"], id |-> req[t].id ]
                       [] OTHER -> FALSE
        /\ (resp' # None /\ resp'.op = "location" /\ resp'.code = 200) =>
              \E t \in Threads : pc[t] = "location_return" /\ req[t].id = resp'.id
      ]_vars

\* A call without lat, lon and who, then a call that carries a timestamp of its
\* own, have both returned ok: two alerts, and the slot holds the second call's
\* values under a server time.
C14_TwoCallsAnswered ==
    /\ resp # None
    /\ resp.op = "location"
    /\ resp.code = 200
    /\ Len(recorded) = 2
    /\ recorded[1].device_id = "unknown"
    /\ recorded[2].device_id = "d1"
    /\ store.latest_location # None
    /\ store.latest_location.who = "d1"
    /\ store.latest_location.lat = JNum(12)
    /\ store.latest_location.timestamp \in C14_ServerTimes

\* C15: the timestamp resolved for an accepted update (the payload's, or the
\* clock's when the payload has none) is the one carried by everything the call
\* writes: the store's timestamp, the sensor reading, the SOS entry and every
\* alert the call appends.
C15_ResolvedTimestampEverywhere ==
    \A t \in Threads :
        (pc[t] = "touch_lock" /\ req[t].source \in {"vision", "esp"})
        ~> ( /\ pc[t] = "update_return"
             /\ store.timestamp = req[t].ts
             /\ req[t].source = "esp" =>
                   /\ store.latest_sensor.timestamp = req[t].ts
                   /\ Get(req[t].data, "sos", FALSE) =>
                         (store.latest_sos # None /\ store.latest_sos.timestamp = req[t].ts)
             /\ \A i \in 1..Len(NewAlerts(t)) : NewAlerts(t)[i].timestamp = req[t].ts )

\* Thread t is inside a `with store_lock:` block: at one of its statements, or
\* at the call update() makes from inside its block.
C16_InBlock(t) ==
    \/ pc[t] \in { "update_body", "vision_timestamp", "vision_count", "location_body",
                   "latest_body", "health_body", "alert_body", "touch_body" }
    \/ pc[t] = "touch_lock" /\ req[t].op = "update"

\* C16: at most one thread is inside a `with store_lock:` block, and it is the
\* holder of the lock; every step that changes the store, and every step that
\* reads it for a snapshot or a health view, is a step of the thread that
\* holds the lock.
C16_MutualExclusion ==
    /\ []( /\ Cardinality({t \in Threads : C16_InBlock(t)}) <= 1
           /\ \A t \in Threads : C16_InBlock(t) <=> lock = t )
    /\ [][ (store' # store \/ (resp' # None /\ resp'.op \in {"latest", "health"})) =>
              /\ lock \in Threads
              /\ C16_InBlock(lock)
              /\ pc'[lock] # pc[lock] ]_vars

\* A location call is about to append its alert under the lock while a
\* snapshot request waits for the lock.
C16_OneInsideOneWaiting ==
    \E t, u \in Threads :
        /\ pc[t] = "alert_body"
        /\ lock = t
        /\ pc[u] = "latest_lock"
        /\ store.latest_location # None

\* C17: the SOS slot, once set, is never reset to empty, and sos_count never
\* decreases; every esp update with a truthy sos flag that is applied sets the
\* slot and is counted in sos_count.
C17_SosMovesForward ==
    /\ [][store.latest_sos # None => store'.latest_sos # None]_vars
    /\ [][store'.stats.sos_count >= store.stats.sos_count]_vars
    /\ \A t \in Threads :
           (pc[t] = "touch_lock" /\ req[t].source = "esp" /\ Get(req[t].data, "sos", FALSE))
           ~> ( /\ store.latest_sos # None
                /\ store.stats.sos_count >= 1 )

\* The registry keeps every entry it has, with a last_seen that does not go back.
C18_OnlyGrows ==
    \A d \in DOMAIN store.device_status :
        /\ d \in DOMAIN store'.device_status
        /\ fromisoformat(store'.device_status[d].last_seen)
              >= fromisoformat(store.device_status[d].last_seen)

C18_RegistryOnlyGrows == [][C18_OnlyGrows]_vars

\* C19: a location call writes the slot in one critical section and appends
\* its alert in another, with the lock free in between: the step that writes
\* the slot leaves the alert log alone and releases the lock, the call then
\* stands at log_alert's lock request without holding the lock, and the step
\* that appends the alert leaves the slot alone.
C19_TwoSections ==
    /\ [](\A t \in Threads : pc[t] = "alert_lock" => lock # t)
    /\ [][ \A t \in Threads :
             (req[t] # None /\ req[t].op = "location" /\ pc'[t] # pc[t]) =>
                 /\ pc[t] = "location_body" =>
                       /\ lock = t
                       /\ lock' = NoThread
                       /\ pc'[t] = "alert_lock"
                       /\ store'.alert_history = store.alert_history
                 /\ pc[t] = "alert_body" =>
                       /\ lock = t
                       /\ lock' = NoThread
                       /\ store'.latest_location = store.latest_location
                       /\ store'.alert_history # store.alert_history ]_vars

\* A snapshot taken between the two sections: it shows the location of a call
\* that has not appended its alert yet, with an empty alert log.
C19_SnapshotBetweenSections ==
    /\ resp # None
    /\ resp.op = "latest"
    /\ resp.body.alert_history = <<>>
    /\ \E t \in Threads :
          /\ pc[t] = "alert_lock"
          /\ req[t].op = "location"
          /\ resp.body.latest_location # None
          /\ resp.body.latest_location.who = req[t].who

\* Two concurrent location calls have both returned, and the slot holds the
\* who of the call whose alert is not the last in the log.
C19_SlotAndLastAlertDiffer ==
    /\ \A t \in Threads : pc[t] = "idle"
    /\ Len(recorded) = 2
    /\ store.latest_location # None
    /\ store.alert_history[2].type = "LOCATION"
    /\ store.latest_location.who # store.alert_history[2].device_id

\* C20: no step of a vision update changes latest_sensor, latest_sos,
\* latest_location or sos_count; no step of an esp update changes the image,
\* the detections, latest_location or total_detections; no step of a location
\* call changes anything but latest_location and the alert log; and no step at
\* all changes uptime_start.
C20_Frame ==
    [][ /\ store'.stats.uptime_start = store.stats.uptime_start
        /\ \A t \in Threads :
              (req[t] # None /\ pc'[t] # pc[t]) =>
                  /\ (req[t].op = "update" /\ Get(req[t].data, "source", "") = "vision") =>
                        /\ store'.latest_sensor = store.latest_sensor
                        /\ store'.latest_sos = store.latest_sos
                        /\ store'.latest_location = store.latest_location
                        /\ store'.stats.sos_count = store.stats.sos_count
                  /\ (req[t].op = "update" /\ Get(req[t].data, "source", "") = "esp") =>
                        /\ store'.latest_image_b64 = store.latest_image_b64
                        /\ store'.latest_detections = store.latest_detections
                        /\ store'.latest_location = store.latest_location
                        /\ store'.stats.total_detections = store.stats.total_detections
                  /\ req[t].op = "location" =>
                        [store' EXCEPT !.latest_location = store.latest_location,
                                       !.alert_history = store.alert_history] = store ]_vars

\* A location call has returned and an esp update has then written its
\* reading: the location and its alert are as the call left them, and the
\* vision fields are as they were at the start.
C20_EspAfterLocation ==
    \E t \in Threads :
        /\ pc[t] = "touch_lock"
        /\ req[t].source = "esp"
        /\ store.latest_sensor # None
        /\ store.latest_location # None
        /\ Len(store.alert_history) = 1
        /\ store.latest_detections = JList(<<>>)
        /\ store.stats = InitStore.stats

====
